---- MODULE Spec2Model ----
(***************************************************************************)
(* Model of the DateSelector component                                     *)
(* (src/src/app/insights/FinancialReports/components/DateSelector.tsx).    *)
(*                                                                         *)
(* The state is the component's useState cells; every handler of the       *)
(* component is one action.  searchTerm only filters the list of presets   *)
(* that is rendered and is left out.  The date-fns helpers the handlers    *)
(* call are operators over an explicit calendar.                           *)
(*                                                                         *)
(* A Date is a record [y, m, d, t]: year, JS month 0..11, day of month and *)
(* the time of day, abstracted to 0 = 00:00:00.000, 1 = an instant during  *)
(* the day, 2 = 23:59:59.999.                                              *)
(*                                                                         *)
(* The range side and the comparison side of the component share no state, *)
(* so the handlers are explored in several specifications:                 *)
(*   Spec          every handler, arguments from small sets;               *)
(*   SpecRange     the month pickers with all months, over preset ranges;  *)
(*   SpecValidate  all ranges of months under every duration class;        *)
(*   SpecNow       presets, duration classes and Apply for every modelled  *)
(*                 value of "now", with the clock advancing;               *)
(*   SpecCompare   the comparison panel as it is rendered.                 *)
(***************************************************************************)
EXTENDS Integers, Sequences, FiniteSets, TLC

VARIABLES isOpen, activeTab, selectedFormat, periodStart, periodEnd,
          periodDuration, startYear, endYear, compareOptions, now, calls,
          lastOp

vars == <<isOpen, activeTab, selectedFormat, periodStart, periodEnd,
          periodDuration, startYear, endYear, compareOptions, now, calls,
          lastOp>>

(***************************************************************************)
(* Bounds of the model.                                                    *)
(***************************************************************************)
\* The year every modelled value of "now" lies in.
BaseYear == 2024

\* The year cursors of the month pickers are paged within
\* BaseYear - YearsBack .. BaseYear (the chevrons are unbounded in the code).
YearsBack == 1

MinYear == BaseYear - YearsBack

MaxYear == BaseYear

(***************************************************************************)
(* Calendar and JS Date arithmetic.                                        *)
(***************************************************************************)
IsLeap(y) == (y % 4 = 0 /\ y % 100 # 0) \/ y % 400 = 0

DaysInMonth(y, m) ==
    IF m = 1 THEN (IF IsLeap(y) THEN 29 ELSE 28)
    ELSE IF m \in {3, 5, 8, 10} THEN 30 ELSE 31

\* new Date(y, m, d) / Date.prototype.setMonth / setDate: a month outside
\* 0..11 carries into the year, a day past the end of the month carries
\* into the next month.
MkDate(y, m, d, t) ==
    LET tot == y * 12 + m
        yy  == tot \div 12
        mm  == tot % 12
        dim == DaysInMonth(yy, mm)
    IN  IF d <= dim
        THEN [y |-> yy, m |-> mm, d |-> d, t |-> t]
        ELSE [y |-> (tot + 1) \div 12, m |-> (tot + 1) % 12,
              d |-> d - dim, t |-> t]

\* Date.prototype.getTime, up to a monotone rescaling.
Stamp(dt) == ((dt.y * 12 + dt.m) * 32 + dt.d) * 3 + dt.t

\* compareAsc of date-fns.
compareAsc(a, b) ==
    IF Stamp(a) < Stamp(b) THEN -1 ELSE IF Stamp(a) > Stamp(b) THEN 1 ELSE 0

startOfMonth(dt) == [y |-> dt.y, m |-> dt.m, d |-> 1, t |-> 0]

endOfMonth(dt) ==
    [y |-> dt.y, m |-> dt.m, d |-> DaysInMonth(dt.y, dt.m), t |-> 2]

startOfYear(dt) == [y |-> dt.y, m |-> 0, d |-> 1, t |-> 0]

endOfYear(dt) == [y |-> dt.y, m |-> 11, d |-> 31, t |-> 2]

startOfQuarter(dt) == [y |-> dt.y, m |-> dt.m - (dt.m % 3), d |-> 1, t |-> 0]

endOfQuarter(dt) ==
    LET qm == dt.m - (dt.m % 3) + 2
    IN  [y |-> dt.y, m |-> qm, d |-> DaysInMonth(dt.y, qm), t |-> 2]

\* addMonths(dt, -n): the day of month is clamped to the length of the
\* target month, the time of day is kept.
subMonths(dt, n) ==
    LET tot == dt.y * 12 + dt.m - n
        yy  == tot \div 12
        mm  == tot % 12
        dim == DaysInMonth(yy, mm)
    IN  [y |-> yy, m |-> mm, d |-> IF dt.d >= dim THEN dim ELSE dt.d,
         t |-> dt.t]

differenceInCalendarMonths(l, r) == (l.y - r.y) * 12 + (l.m - r.m)

Abs(n) == IF n < 0 THEN -n ELSE n

isLastDayOfMonth(dt) == dt.d = DaysInMonth(dt.y, dt.m)

\* differenceInMonths of date-fns: the number of full months between two
\* dates, computed as the library computes it (calendar difference, shift
\* the left date back by it with setMonth, subtract one if the last month
\* is not full).
differenceInMonths(left, right) ==
    LET sign == compareAsc(left, right)
        difference == Abs(differenceInCalendarMonths(left, right))
    IN  IF difference < 1 THEN 0
        ELSE
          LET l1 == IF left.m = 1 /\ left.d > 27
                    THEN MkDate(left.y, left.m, 30, left.t)
                    ELSE left
              l2 == MkDate(l1.y, l1.m - sign * difference, l1.d, l1.t)
              notFull0 == compareAsc(l2, right) = -sign
              notFull == IF isLastDayOfMonth(left) /\ difference = 1
                            /\ compareAsc(left, right) = 1
                         THEN FALSE ELSE notFull0
          IN  sign * (difference - (IF notFull THEN 1 ELSE 0))

(***************************************************************************)
(* Program constants.                                                      *)
(***************************************************************************)
\* commonFormats: the labels of the preset catalog.
commonFormats ==
    { "Current and previous 3 months", "This month", "This month by company",
      "This calendar quarter", "This calendar quarter to date",
      "This calendar year", "This calendar year by month",
      "This calendar year by company", "This calendar year by quarter",
      "Calendar quarter to date by month", "Calendar year to last month",
      "Calendar year to last month by month" }

\* The SelectItem values of the Period Duration selector.
Durations == { "1 month", "3 months", "6 months", "1 year" }

\* The three tabs of the panel.
Tabs == { "presets", "custom", "compare" }

\* The five checkbox fields of CompareOptions.
BoolOptions ==
    { "toPreviousPeriod", "toPreviousYear", "toFinancialYearToDate",
      "byCompany", "byCategoryClassLocation" }

\* The SelectItem values of the "Number of periods" selector.
PeriodChoices == 1..6

\* useState initial value of compareOptions.
DefaultCompareOptions ==
    [ toPreviousPeriod |-> FALSE, toPreviousYear |-> FALSE,
      toFinancialYearToDate |-> FALSE, byCompany |-> FALSE,
      byCategoryClassLocation |-> FALSE, periodsToCompare |-> 4 ]

\* selectedFormat before any preset was selected (null in the code).
NoFormat == "null"

\* The values new Date() takes in the model: the 15th of every month of
\* BaseYear, and the last day of January, March and December (clamping of
\* subMonths, year wrap).
NowDates ==
    { [y |-> BaseYear, m |-> mm, d |-> 15, t |-> 1] : mm \in 0..11 }
      \cup { [y |-> BaseYear, m |-> mm, d |-> 31, t |-> 1] : mm \in {0, 2, 11} }

\* The value of "now" of the sessions of Spec and SpecRange: a day of
\* January, where "last month" lies in the previous year.
SessionNows == { [y |-> BaseYear, m |-> 0, d |-> 15, t |-> 1] }

\* The presets of SpecRange and SpecValidate: a range of whole months, a
\* range that ends within a month and a range that ends before it starts.
RangeLabels ==
    { "This calendar year", "This calendar quarter to date",
      "Calendar year to last month" }

\* The arguments handleFormatSelect is called with: the catalog and one
\* label outside of it.
Labels == commonFormats \cup { "Last month" }

\* The small argument sets of Spec.
SmallLabels == { "This month", "This calendar year",
                 "Calendar year to last month" }

SmallMonths == { 0 }

SmallOptions == { "byCompany" }

SmallPeriods == { 6 }

(***************************************************************************)
(* Derived values of a render.                                             *)
(***************************************************************************)
\* String.prototype.toLowerCase on the duration values.
toLowerCase(s) ==
    CASE s = "1 month"  -> "1 month"
      [] s = "3 months" -> "3 months"
      [] s = "6 months" -> "6 months"
      [] s = "1 year"   -> "1 year"
      [] OTHER          -> s

\* requiredMonths as the number of months of the class, not the difference.
requiredMonthsOfTotal(duration) ==
    CASE duration = "1 month"  -> 1
      [] duration = "3 months" -> 3
      [] duration = "6 months" -> 6
      [] duration = "1 year"   -> 12
      [] OTHER                 -> 0

requiredMonthsOf(duration) ==
    CASE duration = "1 month"  -> 0
      [] duration = "3 months" -> 2
      [] duration = "6 months" -> 5
      [] duration = "1 year"   -> 11
      [] OTHER                 -> 0

\* dateRangeValidation with <= in place of < in the comparison.
validateStrict(pStart, pEnd, duration) ==
    LET monthsDifference == differenceInMonths(pEnd, pStart)
        requiredMonths == requiredMonthsOf(duration)
    IN  IF monthsDifference <= requiredMonths
        THEN [ isValid |-> FALSE,
               message |-> << "Selected date range is too short. ", duration,
                              " view requires at least ",
                              toLowerCase(duration), " of data." >> ]
        ELSE [ isValid |-> TRUE, message |-> << >> ]

\* The useMemo value dateRangeValidation as a function of its dependencies.
\* The message is the sequence of the pieces of the template string; the
\* empty message is the empty sequence.
validate(pStart, pEnd, duration) ==
    LET monthsDifference == differenceInMonths(pEnd, pStart)
        requiredMonths == requiredMonthsOf(duration)
    IN  IF monthsDifference < requiredMonths
        THEN [ isValid |-> FALSE,
               message |-> << "Selected date range is too short. ", duration,
                              " view requires at least ",
                              toLowerCase(duration), " of data." >> ]
        ELSE [ isValid |-> TRUE, message |-> << >> ]

dateRangeValidation == validate(periodStart, periodEnd, periodDuration)

MonthNames == << "Jan", "Feb", "Mar", "Apr", "May", "Jun",
                 "Jul", "Aug", "Sep", "Oct", "Nov", "Dec" >>

\* formatDate: format(date, "MMM dd, yyyy"), the month name, the day and
\* the year; the time of day is not rendered.
formatDate(dt) == << MonthNames[dt.m + 1], dt.d, dt.y >>

\* formatDateRange that renders the range whatever the selected format.
formatDateRangeIgnoresFormat ==
    <<"range", formatDate(periodStart), " - ", formatDate(periodEnd)>>

\* formatDateRange: the text of the trigger button, the selected label or
\* the two formatted dates around " - ".
formatDateRange ==
    IF selectedFormat # NoFormat
    THEN <<"label", selectedFormat>>
    ELSE <<"range", formatDate(periodStart), " - ", formatDate(periodEnd)>>

(***************************************************************************)
(* Initial state: the useState initialisers.                               *)
(***************************************************************************)
InitAt(clock) ==
    /\ now \in clock
    /\ isOpen = FALSE
    /\ activeTab = "presets"
    /\ selectedFormat = NoFormat
    /\ periodStart = startOfMonth(now)
    /\ periodEnd = endOfMonth(now)
    /\ periodDuration = "1 month"
    /\ startYear = now.y
    /\ endYear = now.y
    /\ compareOptions = DefaultCompareOptions
    /\ calls = << >>
    /\ lastOp = [op |-> "init"]

Init == InitAt(SessionNows)

(***************************************************************************)
(* The handlers.  lastOp records the handler that ran last with its        *)
(* arguments (for handleMonthYearSelect also whether it had to adjust the  *)
(* other boundary) and calls is the sequence of callback invocations it    *)
(* made.                                                                   *)
(***************************************************************************)
\* The window of a duration class with the number of months of the class
\* subtracted, not one less.
durationWindowOffByOne(duration, n) ==
    CASE duration = "1 month"  -> <<startOfMonth(n), endOfMonth(n)>>
      [] duration = "3 months" -> <<startOfMonth(subMonths(n, 3)), endOfMonth(n)>>
      [] duration = "6 months" -> <<startOfMonth(subMonths(n, 6)), endOfMonth(n)>>
      [] duration = "1 year"   -> <<startOfMonth(subMonths(n, 12)), endOfMonth(n)>>
      [] OTHER                 -> <<startOfMonth(n), endOfMonth(n)>>

\* The default window of a duration class.
durationWindow(duration, n) ==
    CASE duration = "1 month"  -> <<startOfMonth(n), endOfMonth(n)>>
      [] duration = "3 months" -> <<startOfMonth(subMonths(n, 2)), endOfMonth(n)>>
      [] duration = "6 months" -> <<startOfMonth(subMonths(n, 5)), endOfMonth(n)>>
      [] duration = "1 year"   -> <<startOfMonth(subMonths(n, 11)), endOfMonth(n)>>
      [] OTHER                 -> <<startOfMonth(n), endOfMonth(n)>>

handlePeriodDurationChange(duration) ==
    LET w == durationWindow(duration, now)
    IN  /\ periodDuration' = duration
        /\ periodStart' = w[1]
        /\ periodEnd' = w[2]
        /\ calls' = << >>
        /\ lastOp' = [op |-> "handlePeriodDurationChange", duration |-> duration]
        /\ UNCHANGED <<isOpen, activeTab, selectedFormat, startYear, endYear,
                       compareOptions, now>>

\* The switch of handleFormatSelect with "to date" ending at the end of
\* the current month and not at now.
resolvePresetWholeMonths(format, n) ==
    CASE format = "Current and previous 3 months" ->
            <<startOfMonth(subMonths(n, 3)), endOfMonth(n)>>
      [] format = "This month" -> <<startOfMonth(n), endOfMonth(n)>>
      [] format = "This calendar quarter" ->
            <<startOfQuarter(n), endOfQuarter(n)>>
      [] format = "This calendar quarter to date" ->
            <<startOfQuarter(n), endOfMonth(n)>>
      [] format = "This calendar year" -> <<startOfYear(n), endOfYear(n)>>
      [] format = "This calendar year by month" ->
            <<startOfYear(n), endOfYear(n)>>
      [] format = "Calendar year to last month" ->
            <<startOfYear(n), endOfMonth(subMonths(n, 1))>>
      [] OTHER -> <<startOfMonth(n), endOfMonth(n)>>

\* The switch of handleFormatSelect: label -> <<from, to>>.
resolvePreset(format, n) ==
    CASE format = "Current and previous 3 months" ->
            <<startOfMonth(subMonths(n, 3)), endOfMonth(n)>>
      [] format = "This month" -> <<startOfMonth(n), endOfMonth(n)>>
      [] format = "This calendar quarter" ->
            <<startOfQuarter(n), endOfQuarter(n)>>
      [] format = "This calendar quarter to date" -> <<startOfQuarter(n), n>>
      [] format = "This calendar year" -> <<startOfYear(n), endOfYear(n)>>
      [] format = "This calendar year by month" ->
            <<startOfYear(n), endOfYear(n)>>
      [] format = "Calendar year to last month" ->
            <<startOfYear(n), endOfMonth(subMonths(n, 1))>>
      [] OTHER -> <<startOfMonth(n), endOfMonth(n)>>

\* handleFormatSelect that also puts the duration class back to "1 month".
handleFormatSelectResetsDuration(format) ==
    LET r == resolvePreset(format, now)
    IN  /\ selectedFormat' = format
        /\ periodStart' = r[1]
        /\ periodEnd' = r[2]
        /\ periodDuration' = "1 month"
        /\ calls' = << >>
        /\ lastOp' = [op |-> "handleFormatSelect", format |-> format]
        /\ UNCHANGED <<isOpen, activeTab, startYear, endYear,
                       compareOptions, now>>

handleFormatSelect(format) ==
    LET r == resolvePreset(format, now)
    IN  /\ selectedFormat' = format
        /\ periodStart' = r[1]
        /\ periodEnd' = r[2]
        /\ calls' = << >>
        /\ lastOp' = [op |-> "handleFormatSelect", format |-> format]
        /\ UNCHANGED <<isOpen, activeTab, periodDuration, startYear, endYear,
                       compareOptions, now>>

\* handleCompareOptionChange that passes the options of the current render
\* to the callback.
handleCompareOptionChangeStale(option, value) ==
    LET newOptions == [compareOptions EXCEPT ![option] = value]
    IN  /\ compareOptions' = newOptions
        /\ calls' = << [cb |-> "onCompareChange", arg |-> compareOptions] >>
        /\ lastOp' = [op |-> "handleCompareOptionChange", option |-> option,
                      value |-> value]
        /\ UNCHANGED <<isOpen, activeTab, selectedFormat, periodStart,
                       periodEnd, periodDuration, startYear, endYear, now>>

\* handleCompareOptionChange that puts periodsToCompare back to 4 when
\* toPreviousPeriod is unchecked.
handleCompareOptionChangeResetsPeriods(option, value) ==
    LET newOptions ==
            IF option = "toPreviousPeriod" /\ value = FALSE
            THEN [compareOptions EXCEPT ![option] = value,
                                        !.periodsToCompare = 4]
            ELSE [compareOptions EXCEPT ![option] = value]
    IN  /\ compareOptions' = newOptions
        /\ calls' = << [cb |-> "onCompareChange", arg |-> newOptions] >>
        /\ lastOp' = [op |-> "handleCompareOptionChange", option |-> option,
                      value |-> value]
        /\ UNCHANGED <<isOpen, activeTab, selectedFormat, periodStart,
                       periodEnd, periodDuration, startYear, endYear, now>>

handleCompareOptionChange(option, value) ==
    LET newOptions == [compareOptions EXCEPT ![option] = value]
    IN  /\ compareOptions' = newOptions
        /\ calls' = << [cb |-> "onCompareChange", arg |-> newOptions] >>
        /\ lastOp' = [op |-> "handleCompareOptionChange", option |-> option,
                      value |-> value]
        /\ UNCHANGED <<isOpen, activeTab, selectedFormat, periodStart,
                       periodEnd, periodDuration, startYear, endYear, now>>

\* handleApplyChanges without the validity test around the callback.
handleApplyChangesUngated ==
    /\ calls' = << [cb |-> "onDateRangeChange",
                    arg |-> [from |-> periodStart, to |-> periodEnd]] >>
    /\ isOpen' = FALSE
    /\ lastOp' = [op |-> "handleApplyChanges"]
    /\ UNCHANGED <<activeTab, selectedFormat, periodStart, periodEnd,
                   periodDuration, startYear, endYear, compareOptions, now>>

\* handleApplyChanges with setIsOpen(false) moved out of the validity test.
handleApplyChangesAlwaysCloses ==
    /\ IF dateRangeValidation.isValid
       THEN calls' = << [cb |-> "onDateRangeChange",
                         arg |-> [from |-> periodStart, to |-> periodEnd]] >>
       ELSE calls' = << >>
    /\ isOpen' = FALSE
    /\ lastOp' = [op |-> "handleApplyChanges"]
    /\ UNCHANGED <<activeTab, selectedFormat, periodStart, periodEnd,
                   periodDuration, startYear, endYear, compareOptions, now>>

handleApplyChanges ==
    /\ IF dateRangeValidation.isValid
       THEN /\ calls' = << [cb |-> "onDateRangeChange",
                            arg |-> [from |-> periodStart, to |-> periodEnd]] >>
            /\ isOpen' = FALSE
       ELSE /\ calls' = << >>
            /\ UNCHANGED isOpen
    /\ lastOp' = [op |-> "handleApplyChanges"]
    /\ UNCHANGED <<activeTab, selectedFormat, periodStart, periodEnd,
                   periodDuration, startYear, endYear, compareOptions, now>>

\* handleCancel that also drops the preset label of the edit it cancels.
handleCancelClearsFormat ==
    /\ isOpen' = FALSE
    /\ selectedFormat' = NoFormat
    /\ calls' = << >>
    /\ lastOp' = [op |-> "handleCancel"]
    /\ UNCHANGED <<activeTab, periodStart, periodEnd, periodDuration,
                   startYear, endYear, compareOptions, now>>

handleCancel ==
    /\ isOpen' = FALSE
    /\ calls' = << >>
    /\ lastOp' = [op |-> "handleCancel"]
    /\ UNCHANGED <<activeTab, selectedFormat, periodStart, periodEnd,
                   periodDuration, startYear, endYear, compareOptions, now>>

\* handleMonthYearSelect that takes the first day of the selected month for
\* the end date as well.
handleMonthYearSelectEndAtFirst(month, year, isStart) ==
    LET newDate == MkDate(year, month, 1, 0)
    IN  /\ IF isStart
           THEN LET startDate == startOfMonth(newDate)
                IN  /\ periodStart' = startDate
                    /\ IF Stamp(periodEnd) < Stamp(startDate)
                       THEN /\ periodEnd' = endOfMonth(startDate)
                            /\ endYear' = year
                       ELSE UNCHANGED <<periodEnd, endYear>>
                    /\ UNCHANGED startYear
           ELSE LET endDate == newDate
                IN  /\ periodEnd' = endDate
                    /\ IF Stamp(periodStart) > Stamp(endDate)
                       THEN /\ periodStart' = startOfMonth(endDate)
                            /\ startYear' = year
                       ELSE UNCHANGED <<periodStart, startYear>>
                    /\ UNCHANGED endYear
        /\ calls' = << >>
        /\ lastOp' = [op |-> "handleMonthYearSelect", month |-> month,
                      year |-> year, isStart |-> isStart,
                      adjusted |-> IF isStart
                                   THEN Stamp(periodEnd)
                                          < Stamp(startOfMonth(newDate))
                                   ELSE Stamp(periodStart)
                                          > Stamp(endOfMonth(newDate))]
        /\ UNCHANGED <<isOpen, activeTab, selectedFormat, periodDuration,
                       compareOptions, now>>

\* handleMonthYearSelect without the adjustment of the end date.
handleMonthYearSelectKeepsEnd(month, year, isStart) ==
    LET newDate == MkDate(year, month, 1, 0)
    IN  /\ IF isStart
           THEN LET startDate == startOfMonth(newDate)
                IN  /\ periodStart' = startDate
                    /\ UNCHANGED <<periodEnd, endYear>>
                    /\ UNCHANGED startYear
           ELSE LET endDate == endOfMonth(newDate)
                IN  /\ periodEnd' = endDate
                    /\ IF Stamp(periodStart) > Stamp(endDate)
                       THEN /\ periodStart' = startOfMonth(endDate)
                            /\ startYear' = year
                       ELSE UNCHANGED <<periodStart, startYear>>
                    /\ UNCHANGED endYear
        /\ calls' = << >>
        /\ lastOp' = [op |-> "handleMonthYearSelect", month |-> month,
                      year |-> year, isStart |-> isStart,
                      adjusted |-> IF isStart
                                   THEN Stamp(periodEnd)
                                          < Stamp(startOfMonth(newDate))
                                   ELSE Stamp(periodStart)
                                          > Stamp(endOfMonth(newDate))]
        /\ UNCHANGED <<isOpen, activeTab, selectedFormat, periodDuration,
                       compareOptions, now>>

\* handleMonthYearSelect without the adjustment of the start date.
handleMonthYearSelectKeepsStart(month, year, isStart) ==
    LET newDate == MkDate(year, month, 1, 0)
    IN  /\ IF isStart
           THEN LET startDate == startOfMonth(newDate)
                IN  /\ periodStart' = startDate
                    /\ IF Stamp(periodEnd) < Stamp(startDate)
                       THEN /\ periodEnd' = endOfMonth(startDate)
                            /\ endYear' = year
                       ELSE UNCHANGED <<periodEnd, endYear>>
                    /\ UNCHANGED startYear
           ELSE LET endDate == endOfMonth(newDate)
                IN  /\ periodEnd' = endDate
                    /\ UNCHANGED <<periodStart, startYear>>
                    /\ UNCHANGED endYear
        /\ calls' = << >>
        /\ lastOp' = [op |-> "handleMonthYearSelect", month |-> month,
                      year |-> year, isStart |-> isStart,
                      adjusted |-> IF isStart
                                   THEN Stamp(periodEnd)
                                          < Stamp(startOfMonth(newDate))
                                   ELSE Stamp(periodStart)
                                          > Stamp(endOfMonth(newDate))]
        /\ UNCHANGED <<isOpen, activeTab, selectedFormat, periodDuration,
                       compareOptions, now>>

\* handleMonthYearSelect that always moves the year cursor of the other
\* side to the selected year.
handleMonthYearSelectSyncsCursors(month, year, isStart) ==
    LET newDate == MkDate(year, month, 1, 0)
    IN  /\ IF isStart
           THEN LET startDate == startOfMonth(newDate)
                IN  /\ periodStart' = startDate
                    /\ IF Stamp(periodEnd) < Stamp(startDate)
                       THEN periodEnd' = endOfMonth(startDate)
                       ELSE UNCHANGED periodEnd
                    /\ endYear' = year
                    /\ UNCHANGED startYear
           ELSE LET endDate == endOfMonth(newDate)
                IN  /\ periodEnd' = endDate
                    /\ IF Stamp(periodStart) > Stamp(endDate)
                       THEN periodStart' = startOfMonth(endDate)
                       ELSE UNCHANGED periodStart
                    /\ startYear' = year
                    /\ UNCHANGED endYear
        /\ calls' = << >>
        /\ lastOp' = [op |-> "handleMonthYearSelect", month |-> month,
                      year |-> year, isStart |-> isStart,
                      adjusted |-> IF isStart
                                   THEN Stamp(periodEnd)
                                          < Stamp(startOfMonth(newDate))
                                   ELSE Stamp(periodStart)
                                          > Stamp(endOfMonth(newDate))]
        /\ UNCHANGED <<isOpen, activeTab, selectedFormat, periodDuration,
                       compareOptions, now>>

handleMonthYearSelect(month, year, isStart) ==
    LET newDate == MkDate(year, month, 1, 0)
    IN  /\ IF isStart
           THEN LET startDate == startOfMonth(newDate)
                IN  /\ periodStart' = startDate
                    /\ IF Stamp(periodEnd) < Stamp(startDate)
                       THEN /\ periodEnd' = endOfMonth(startDate)
                            /\ endYear' = year
                       ELSE UNCHANGED <<periodEnd, endYear>>
                    /\ UNCHANGED startYear
           ELSE LET endDate == endOfMonth(newDate)
                IN  /\ periodEnd' = endDate
                    /\ IF Stamp(periodStart) > Stamp(endDate)
                       THEN /\ periodStart' = startOfMonth(endDate)
                            /\ startYear' = year
                       ELSE UNCHANGED <<periodStart, startYear>>
                    /\ UNCHANGED endYear
        /\ calls' = << >>
        /\ lastOp' = [op |-> "handleMonthYearSelect", month |-> month,
                      year |-> year, isStart |-> isStart,
                      adjusted |-> IF isStart
                                   THEN Stamp(periodEnd)
                                          < Stamp(startOfMonth(newDate))
                                   ELSE Stamp(periodStart)
                                          > Stamp(endOfMonth(newDate))]
        /\ UNCHANGED <<isOpen, activeTab, selectedFormat, periodDuration,
                       compareOptions, now>>

\* setYear of renderMonthPicker: the chevrons page the year cursor.
setYear(isStart, year) ==
    /\ year \in MinYear..MaxYear
    /\ IF isStart
       THEN startYear' = year /\ UNCHANGED endYear
       ELSE endYear' = year /\ UNCHANGED startYear
    /\ calls' = << >>
    /\ lastOp' = [op |-> "setYear", isStart |-> isStart, year |-> year]
    /\ UNCHANGED <<isOpen, activeTab, selectedFormat, periodStart, periodEnd,
                   periodDuration, compareOptions, now>>

setActiveTab(tab) ==
    /\ activeTab' = tab
    /\ calls' = << >>
    /\ lastOp' = [op |-> "setActiveTab", tab |-> tab]
    /\ UNCHANGED <<isOpen, selectedFormat, periodStart, periodEnd,
                   periodDuration, startYear, endYear, compareOptions, now>>

\* onOpenChange of the Popover: the trigger opens the panel, a click
\* outside or Escape dismisses it.
setIsOpen(v) ==
    /\ isOpen' = v
    /\ calls' = << >>
    /\ lastOp' = [op |-> "setIsOpen", open |-> v]
    /\ UNCHANGED <<activeTab, selectedFormat, periodStart, periodEnd,
                   periodDuration, startYear, endYear, compareOptions, now>>

(***************************************************************************)
(* The handlers as operations: each may run in any state, with any         *)
(* argument of the given domain.                                           *)
(***************************************************************************)
FormatSelect(labels) == \E format \in labels : handleFormatSelect(format)

PeriodDurationChange ==
    \E duration \in Durations : handlePeriodDurationChange(duration)

\* onClick of a month button: handleMonthYearSelect(index, currentYear,
\* isStart) with the year cursor of the picker.
MonthYearSelect(months) ==
    \E isStart \in BOOLEAN, month \in months :
       handleMonthYearSelect(month, IF isStart THEN startYear ELSE endYear,
                             isStart)

\* onClick of the chevrons: setYear(currentYear - 1), setYear(currentYear + 1).
SetYear ==
    \E isStart \in BOOLEAN, step \in {-1, 1} :
       setYear(isStart, (IF isStart THEN startYear ELSE endYear) + step)

CompareOptionChange(options, periods) ==
    \/ \E option \in options, value \in BOOLEAN :
          handleCompareOptionChange(option, value)
    \/ \E n \in periods : handleCompareOptionChange("periodsToCompare", n)

SetActiveTab == \E tab \in Tabs : setActiveTab(tab)

SetIsOpen == \E v \in BOOLEAN : setIsOpen(v)

ApplyChanges == handleApplyChanges

Cancel == handleCancel

\* new Date() returns a later instant.
ClockTick ==
    /\ \E n \in NowDates : Stamp(n) > Stamp(now) /\ now' = n
    /\ calls' = << >>
    /\ lastOp' = [op |-> "clock"]
    /\ UNCHANGED <<isOpen, activeTab, selectedFormat, periodStart, periodEnd,
                   periodDuration, startYear, endYear, compareOptions>>

(***************************************************************************)
(* Spec: every operation of the component, its arguments drawn from small  *)
(* sets.                                                                   *)
(***************************************************************************)
Next ==
    \/ FormatSelect(SmallLabels)
    \/ PeriodDurationChange
    \/ MonthYearSelect(SmallMonths)
    \/ SetYear
    \/ CompareOptionChange(SmallOptions, SmallPeriods)
    \/ SetActiveTab
    \/ SetIsOpen
    \/ ApplyChanges
    \/ Cancel

Spec == Init /\ [][Next]_vars

(***************************************************************************)
(* SpecRange: the custom range picker with its full argument domain, over  *)
(* ranges left by presets.                                                 *)
(***************************************************************************)
NextRange ==
    \/ FormatSelect(RangeLabels)
    \/ MonthYearSelect(0..11)
    \/ SetYear

SpecRange == Init /\ [][NextRange]_vars

(***************************************************************************)
(* SpecValidate: every range of months of the year of "now", and the       *)
(* ranges left by presets, under every duration class.                     *)
(***************************************************************************)
NextValidate ==
    \/ FormatSelect(RangeLabels)
    \/ PeriodDurationChange
    \/ MonthYearSelect(0..11)

SpecValidate == Init /\ [][NextValidate]_vars

(***************************************************************************)
(* SpecNow: presets, duration classes and Apply for every modelled value   *)
(* of "now", with the clock advancing during the session.                  *)
(***************************************************************************)
NextNow ==
    \/ FormatSelect(Labels)
    \/ PeriodDurationChange
    \/ SetIsOpen
    \/ ApplyChanges
    \/ ClockTick

SpecNow == InitAt(NowDates) /\ [][NextNow]_vars

(***************************************************************************)
(* SpecCompare: the comparison panel as rendered, with the shell around    *)
(* it.  A control exists only while the JSX renders it (panel open, its    *)
(* tab active, the periods selector only under a checked toPreviousPeriod) *)
(* and a disabled button does not run its onClick.                         *)
(***************************************************************************)
\* <Popover open={isOpen} onOpenChange={setIsOpen}>
TogglePanel == setIsOpen(~isOpen)

SwitchTab == isOpen /\ \E tab \in Tabs : setActiveTab(tab)

ToggleCheckbox ==
    /\ isOpen /\ activeTab = "compare"
    /\ \E option \in BoolOptions :
          handleCompareOptionChange(option, ~compareOptions[option])

SelectPeriods ==
    /\ isOpen /\ activeTab = "compare"
    /\ compareOptions.toPreviousPeriod
    /\ \E n \in PeriodChoices : handleCompareOptionChange("periodsToCompare", n)

\* disabled={!dateRangeValidation.isValid}
ClickApply ==
    /\ isOpen
    /\ dateRangeValidation.isValid
    /\ handleApplyChanges

ClickCancel == isOpen /\ handleCancel

NextCompare ==
    \/ TogglePanel
    \/ SwitchTab
    \/ ToggleCheckbox
    \/ SelectPeriods
    \/ ClickApply
    \/ ClickCancel

SpecCompare == Init /\ [][NextCompare]_vars

(***************************************************************************)
(* Properties.                                                             *)
(***************************************************************************)
\* C1: onDateRangeChange is invoked only by the Apply operation and only
\* when the validator's current result is valid; such an Apply invokes it
\* exactly once, with {from: periodStart, to: periodEnd} of the current
\* state, and closes the panel.  No other operation invokes it.
ApplyIsTheOnlyRangeEmitter ==
    [][ /\ (\E i \in 1..Len(calls') : calls'[i].cb = "onDateRangeChange")
           => (lastOp'.op = "handleApplyChanges" /\ dateRangeValidation.isValid)
        /\ (lastOp'.op = "handleApplyChanges" /\ dateRangeValidation.isValid)
           => /\ calls' = << [cb |-> "onDateRangeChange",
                              arg |-> [from |-> periodStart,
                                       to |-> periodEnd]] >>
              /\ isOpen' = FALSE ]_vars

\* A valid Apply has just emitted the range chosen by a preset and closed
\* the panel it was clicked in.
ApplyEmitted ==
    /\ lastOp.op = "handleApplyChanges"
    /\ Len(calls) = 1
    /\ calls[1].cb = "onDateRangeChange"
    /\ calls[1].arg = [from |-> periodStart, to |-> periodEnd]
    /\ selectedFormat # NoFormat
    /\ isOpen = FALSE

\* C2: while the range is shorter than the duration class requires, the
\* validator's result is invalid with a non-empty message, and Apply emits
\* nothing, leaves the panel as it is (open) and leaves periodStart,
\* periodEnd, periodDuration, selectedFormat and compareOptions unchanged.
InvalidApplyDoesNothing ==
    [][ LET required == CASE periodDuration = "1 month"  -> 0
                          [] periodDuration = "3 months" -> 2
                          [] periodDuration = "6 months" -> 5
                          [] periodDuration = "1 year"   -> 11
            tooShort == differenceInMonths(periodEnd, periodStart) < required
        IN  tooShort =>
              /\ ~dateRangeValidation.isValid
              /\ dateRangeValidation.message # << >>
              /\ lastOp'.op = "handleApplyChanges" =>
                    /\ calls' = << >>
                    /\ UNCHANGED <<isOpen, periodStart, periodEnd,
                                   periodDuration, selectedFormat,
                                   compareOptions>> ]_vars

\* Apply has just run in an open panel whose range is too short: the panel
\* is still open and nothing was emitted.
InvalidApplyTried ==
    /\ lastOp.op = "handleApplyChanges"
    /\ ~dateRangeValidation.isValid
    /\ isOpen
    /\ calls = << >>

\* C3: Cancel closes the panel, invokes no callback and leaves periodStart,
\* periodEnd, periodDuration, selectedFormat, compareOptions and the year
\* cursors exactly as they were.
CancelKeepsTheEdit ==
    [][ lastOp'.op = "handleCancel" =>
          /\ isOpen' = FALSE
          /\ calls' = << >>
          /\ UNCHANGED <<periodStart, periodEnd, periodDuration,
                         selectedFormat, compareOptions, startYear,
                         endYear>> ]_vars

\* Cancel has just closed a panel whose state differs from the initial and
\* from any applied one: a preset is selected, the duration class and a
\* compare option were changed, a year cursor was paged.
CancelledMidEdit ==
    /\ lastOp.op = "handleCancel"
    /\ isOpen = FALSE
    /\ selectedFormat # NoFormat
    /\ periodDuration = "1 year"
    /\ ~dateRangeValidation.isValid
    /\ compareOptions # DefaultCompareOptions
    /\ startYear # now.y

\* C4: the validator reports isValid = false, with a non-empty message
\* that names the duration class, exactly when the number of whole months
\* from periodStart to periodEnd is smaller than 0, 2, 5, 11 for '1 month',
\* '3 months', '6 months', '1 year', and isValid = true with the empty
\* message otherwise.  The number of whole months is counted here by
\* stepping month by month from the earlier date to the later one.
ValidatorMatchesRequirement ==
    LET ordered == Stamp(periodStart) <= Stamp(periodEnd)
        lo == IF ordered THEN periodStart ELSE periodEnd
        hi == IF ordered THEN periodEnd ELSE periodStart
        whole == CHOOSE k \in 0..240 :
                    /\ Stamp(subMonths(lo, -k)) <= Stamp(hi)
                    /\ Stamp(subMonths(lo, -(k + 1))) > Stamp(hi)
        monthsDiff == IF ordered THEN whole ELSE -whole
        required == CASE periodDuration = "1 month"  -> 0
                      [] periodDuration = "3 months" -> 2
                      [] periodDuration = "6 months" -> 5
                      [] periodDuration = "1 year"   -> 11
        v == dateRangeValidation
    IN  IF monthsDiff < required
        THEN /\ v.isValid = FALSE
             /\ v.message # << >>
             /\ \E i \in 1..Len(v.message) : v.message[i] = periodDuration
        ELSE /\ v.isValid = TRUE
             /\ v.message = << >>

\* '1 year' with a custom range of exactly 10 months difference is invalid
\* and the message references '1 year'.
OneYearTenMonthsInvalid ==
    /\ periodDuration = "1 year"
    /\ lastOp.op = "handleMonthYearSelect"
    /\ periodStart.d = 1
    /\ (periodEnd.y - periodStart.y) * 12 + periodEnd.m - periodStart.m = 10
    /\ dateRangeValidation.isValid = FALSE
    /\ dateRangeValidation.message[2] = "1 year"

\* C5: selecting a start month that is strictly after the month of the
\* current periodEnd sets periodStart to the first day of the selected
\* month and periodEnd to the last day of that same month.
StartPastEndMovesEnd ==
    [][ (/\ lastOp'.op = "handleMonthYearSelect"
         /\ lastOp'.isStart
         /\ lastOp'.year * 12 + lastOp'.month
              > periodEnd.y * 12 + periodEnd.m)
        => /\ periodStart' = [y |-> lastOp'.year, m |-> lastOp'.month,
                              d |-> 1, t |-> 0]
           /\ periodEnd' = [y |-> lastOp'.year, m |-> lastOp'.month,
                            d |-> DaysInMonth(lastOp'.year, lastOp'.month),
                            t |-> 2] ]_vars

\* A start month after the end was selected and the end was moved.
StartSelectedPastEnd ==
    /\ lastOp.op = "handleMonthYearSelect"
    /\ lastOp.isStart
    /\ lastOp.adjusted
    /\ periodStart.m = lastOp.month /\ periodStart.y = lastOp.year
    /\ periodEnd.m = lastOp.month /\ periodEnd.y = lastOp.year

\* C6: selecting an end month that is strictly before the month of the
\* current periodStart sets periodEnd to the last day of the selected
\* month and periodStart to the first day of that same month.
EndBeforeStartMovesStart ==
    [][ (/\ lastOp'.op = "handleMonthYearSelect"
         /\ ~lastOp'.isStart
         /\ lastOp'.year * 12 + lastOp'.month
              < periodStart.y * 12 + periodStart.m)
        => /\ periodEnd' = [y |-> lastOp'.year, m |-> lastOp'.month,
                            d |-> DaysInMonth(lastOp'.year, lastOp'.month),
                            t |-> 2]
           /\ periodStart' = [y |-> lastOp'.year, m |-> lastOp'.month,
                              d |-> 1, t |-> 0] ]_vars

\* An end month before the start was selected and the start was moved.
EndSelectedBeforeStart ==
    /\ lastOp.op = "handleMonthYearSelect"
    /\ ~lastOp.isStart
    /\ lastOp.adjusted
    /\ periodStart.m = lastOp.month /\ periodStart.y = lastOp.year
    /\ periodEnd.m = lastOp.month /\ periodEnd.y = lastOp.year

\* C7: changing the duration class to N months (N = 1, 3, 6, 12) records
\* the class and sets periodStart to the first day of the month N - 1
\* months before the current month and periodEnd to the last day of the
\* current month, whatever the range was before.
DurationChangeResetsRange ==
    [][ lastOp'.op = "handlePeriodDurationChange" =>
          LET n == CASE lastOp'.duration = "1 month"  -> 1
                     [] lastOp'.duration = "3 months" -> 3
                     [] lastOp'.duration = "6 months" -> 6
                     [] lastOp'.duration = "1 year"   -> 12
              first == now.y * 12 + now.m - (n - 1)
          IN  /\ periodDuration' = lastOp'.duration
              /\ periodStart' = [y |-> first \div 12, m |-> first % 12,
                                 d |-> 1, t |-> 0]
              /\ periodEnd' = [y |-> now.y, m |-> now.m,
                               d |-> DaysInMonth(now.y, now.m), t |-> 2] ]_vars

\* On a last day of March the class was changed to '3 months' while a
\* preset was selected: the range is January to March, whatever the preset
\* had resolved to.
DurationChangedOverPreset ==
    /\ lastOp.op = "handlePeriodDurationChange"
    /\ lastOp.duration = "3 months"
    /\ selectedFormat = "This calendar year"
    /\ now = [y |-> BaseYear, m |-> 2, d |-> 31, t |-> 1]
    /\ periodStart = [y |-> BaseYear, m |-> 0, d |-> 1, t |-> 0]
    /\ periodEnd = [y |-> BaseYear, m |-> 2, d |-> 31, t |-> 2]

\* C8: for every duration class d and every value of "now", a state whose
\* class is d and whose range is d's default window is valid.
DefaultWindowIsValid ==
    \A n \in NowDates :
       LET months == CASE periodDuration = "1 month"  -> 1
                       [] periodDuration = "3 months" -> 3
                       [] periodDuration = "6 months" -> 6
                       [] periodDuration = "1 year"   -> 12
           first == n.y * 12 + n.m - (months - 1)
       IN  (/\ periodStart = [y |-> first \div 12, m |-> first % 12,
                              d |-> 1, t |-> 0]
            /\ periodEnd = [y |-> n.y, m |-> n.m,
                            d |-> DaysInMonth(n.y, n.m), t |-> 2])
           => dateRangeValidation.isValid

\* '6 months' on the 15th of May: from the 1st of December of the previous
\* year to the 31st of May, a month difference of 5, valid.
SixMonthsInMay ==
    /\ lastOp.op = "handlePeriodDurationChange"
    /\ periodDuration = "6 months"
    /\ now = [y |-> BaseYear, m |-> 4, d |-> 15, t |-> 1]
    /\ periodStart = [y |-> BaseYear - 1, m |-> 11, d |-> 1, t |-> 0]
    /\ periodEnd = [y |-> BaseYear, m |-> 4, d |-> 31, t |-> 2]
    /\ differenceInMonths(periodEnd, periodStart) = 5
    /\ dateRangeValidation.isValid

\* C9: every compare-panel interaction invokes onCompareChange exactly
\* once, in the same step, with the complete record that equals the
\* previous compareOptions with only the touched field replaced, and that
\* record becomes the stored compareOptions.
CompareChangeEmitsFullRecord ==
    [][ lastOp'.op = "handleCompareOptionChange" =>
          /\ Len(calls') = 1
          /\ calls'[1].cb = "onCompareChange"
          /\ DOMAIN calls'[1].arg = BoolOptions \cup {"periodsToCompare"}
          /\ \A f \in BoolOptions \cup {"periodsToCompare"} :
                calls'[1].arg[f] = IF f = lastOp'.option
                                   THEN lastOp'.value
                                   ELSE compareOptions[f]
          /\ compareOptions' = calls'[1].arg ]_vars

\* From the defaults, byCompany was toggled to true.
ByCompanyToggledFromDefaults ==
    /\ lastOp.op = "handleCompareOptionChange"
    /\ lastOp.option = "byCompany"
    /\ calls = << [cb |-> "onCompareChange",
                   arg |-> [ toPreviousPeriod |-> FALSE,
                             toPreviousYear |-> FALSE,
                             toFinancialYearToDate |-> FALSE,
                             byCompany |-> TRUE,
                             byCategoryClassLocation |-> FALSE,
                             periodsToCompare |-> 4 ]] >>
    /\ compareOptions = calls[1].arg

\* C10 as stated: the five named labels follow their rules and every other
\* label, every other label of the catalog included, resolves to this
\* month.
OtherLabelsResolveToThisMonth ==
    [][ lastOp'.op = "handleFormatSelect" =>
          LET f == lastOp'.format
              q == (now.m \div 3) * 3
              prev == now.y * 12 + now.m - 1
              from ==
                CASE f \in {"This calendar quarter",
                            "This calendar quarter to date"} ->
                        [y |-> now.y, m |-> q, d |-> 1, t |-> 0]
                  [] f \in {"This calendar year",
                            "Calendar year to last month"} ->
                        [y |-> now.y, m |-> 0, d |-> 1, t |-> 0]
                  [] OTHER -> [y |-> now.y, m |-> now.m, d |-> 1, t |-> 0]
              to ==
                CASE f = "This calendar quarter" ->
                        [y |-> now.y, m |-> q + 2,
                         d |-> DaysInMonth(now.y, q + 2), t |-> 2]
                  [] f = "This calendar quarter to date" -> now
                  [] f = "This calendar year" ->
                        [y |-> now.y, m |-> 11, d |-> 31, t |-> 2]
                  [] f = "Calendar year to last month" ->
                        [y |-> prev \div 12, m |-> prev % 12,
                         d |-> DaysInMonth(prev \div 12, prev % 12), t |-> 2]
                  [] OTHER -> [y |-> now.y, m |-> now.m,
                               d |-> DaysInMonth(now.y, now.m), t |-> 2]
          IN  periodStart' = from /\ periodEnd' = to ]_vars

\* C10 amended: as above, but 'Current and previous 3 months' resolves to
\* the first day of the month three months before the current one up to
\* the last day of the current month, and 'This calendar year by month'
\* resolves like 'This calendar year'; the remaining labels resolve to
\* this month.
PresetsFollowTheirRules ==
    [][ lastOp'.op = "handleFormatSelect" =>
          LET f == lastOp'.format
              q == (now.m \div 3) * 3
              prev == now.y * 12 + now.m - 1
              back3 == now.y * 12 + now.m - 3
              from ==
                CASE f \in {"This calendar quarter",
                            "This calendar quarter to date"} ->
                        [y |-> now.y, m |-> q, d |-> 1, t |-> 0]
                  [] f \in {"This calendar year",
                            "This calendar year by month",
                            "Calendar year to last month"} ->
                        [y |-> now.y, m |-> 0, d |-> 1, t |-> 0]
                  [] f = "Current and previous 3 months" ->
                        [y |-> back3 \div 12, m |-> back3 % 12,
                         d |-> 1, t |-> 0]
                  [] OTHER -> [y |-> now.y, m |-> now.m, d |-> 1, t |-> 0]
              to ==
                CASE f = "This calendar quarter" ->
                        [y |-> now.y, m |-> q + 2,
                         d |-> DaysInMonth(now.y, q + 2), t |-> 2]
                  [] f = "This calendar quarter to date" -> now
                  [] f \in {"This calendar year",
                            "This calendar year by month"} ->
                        [y |-> now.y, m |-> 11, d |-> 31, t |-> 2]
                  [] f = "Calendar year to last month" ->
                        [y |-> prev \div 12, m |-> prev % 12,
                         d |-> DaysInMonth(prev \div 12, prev % 12), t |-> 2]
                  [] OTHER -> [y |-> now.y, m |-> now.m,
                               d |-> DaysInMonth(now.y, now.m), t |-> 2]
          IN  /\ selectedFormat' = f
              /\ periodStart' = from
              /\ periodEnd' = to ]_vars

\* 'This calendar quarter to date' on the 15th of May: the 1st of April to
\* the 15th of May.
QuarterToDateInMay ==
    /\ lastOp.op = "handleFormatSelect"
    /\ lastOp.format = "This calendar quarter to date"
    /\ now = [y |-> BaseYear, m |-> 4, d |-> 15, t |-> 1]
    /\ periodStart = [y |-> BaseYear, m |-> 3, d |-> 1, t |-> 0]
    /\ periodEnd = now

\* C11: in every reachable state periodStart <= periodEnd, and every range
\* passed to onDateRangeChange has from <= to.
RangeIsOrdered ==
    /\ Stamp(periodStart) <= Stamp(periodEnd)
    /\ \A i \in 1..Len(calls) :
          calls[i].cb = "onDateRangeChange"
             => Stamp(calls[i].arg.from) <= Stamp(calls[i].arg.to)

\* C12 as stated: in every reachable state periodStart is the first day of
\* a calendar month and periodEnd is the last day of a calendar month.
RangeOnMonthBoundaries ==
    /\ periodStart.d = 1 /\ periodStart.t = 0
    /\ periodEnd.d = DaysInMonth(periodEnd.y, periodEnd.m) /\ periodEnd.t = 2

\* C12 amended: periodStart is always the first day of a calendar month;
\* periodEnd is the last day of a calendar month, except that after the
\* preset 'This calendar quarter to date' it is the value of "now" until an
\* end month, another preset or a duration class is selected.
RangeOnMonthBoundariesButToDate ==
    /\ periodStart.d = 1 /\ periodStart.t = 0
    /\ \/ /\ periodEnd.d = DaysInMonth(periodEnd.y, periodEnd.m)
          /\ periodEnd.t = 2
       \/ /\ selectedFormat = "This calendar quarter to date"
          /\ periodEnd = now

\* After 'This calendar quarter to date' a start month was selected: the
\* start is a first of a month, the end is still "now".
StartSelectedUnderToDate ==
    /\ lastOp.op = "handleMonthYearSelect"
    /\ lastOp.isStart
    /\ periodStart = [y |-> lastOp.year, m |-> lastOp.month, d |-> 1, t |-> 0]
    /\ selectedFormat = "This calendar quarter to date"
    /\ periodEnd = now
    /\ periodEnd.t = 1

\* C13: periodsToCompare starts at 4 and stays within 1..6; only the
\* periods selector changes it, the selector is operated only while
\* toPreviousPeriod is true, and toggling toPreviousPeriod or any other
\* option leaves the stored value as it was.
PeriodsChangedOnlyBySelector ==
    /\ compareOptions.periodsToCompare = 4
    /\ [][ /\ compareOptions'.periodsToCompare \in 1..6
           /\ compareOptions'.periodsToCompare
                 # compareOptions.periodsToCompare
                 => /\ lastOp'.op = "handleCompareOptionChange"
                    /\ lastOp'.option = "periodsToCompare"
           /\ ( /\ lastOp'.op = "handleCompareOptionChange"
                /\ lastOp'.option = "periodsToCompare" )
                 => compareOptions.toPreviousPeriod
           /\ ( /\ lastOp'.op = "handleCompareOptionChange"
                /\ lastOp'.option \in BoolOptions )
                 => compareOptions'.periodsToCompare
                       = compareOptions.periodsToCompare ]_vars

\* toPreviousPeriod was just unchecked and the periods chosen before are
\* still stored.
PeriodsKeptWhileHidden ==
    /\ lastOp.op = "handleCompareOptionChange"
    /\ lastOp.option = "toPreviousPeriod"
    /\ lastOp.value = FALSE
    /\ ~compareOptions.toPreviousPeriod
    /\ compareOptions.periodsToCompare = 2

\* C14: selecting a preset makes its label the displayed text; no other
\* operation changes selectedFormat, so the label stays that of the last
\* selected preset whatever happens to the range; while no preset was
\* selected the displayed text is the formatted periodStart - periodEnd.
LabelIsTheLastPreset ==
    [][ /\ lastOp'.op = "handleFormatSelect"
           => /\ selectedFormat' = lastOp'.format
              /\ formatDateRange' = <<"label", lastOp'.format>>
        /\ lastOp'.op # "handleFormatSelect"
           => selectedFormat' = selectedFormat
        /\ selectedFormat' # NoFormat
           => formatDateRange' = <<"label", selectedFormat'>>
        /\ selectedFormat' = NoFormat
           => formatDateRange'
                 = << "range",
                      << MonthNames[periodStart'.m + 1], periodStart'.d,
                         periodStart'.y >>,
                      " - ",
                      << MonthNames[periodEnd'.m + 1], periodEnd'.d,
                         periodEnd'.y >> >> ]_vars

\* The label says 'This calendar year' and a start month of the year
\* before was selected afterwards: label and range are out of sync.
LabelOutOfSync ==
    /\ lastOp.op = "handleMonthYearSelect"
    /\ lastOp.isStart
    /\ selectedFormat = "This calendar year"
    /\ formatDateRange = <<"label", "This calendar year">>
    /\ periodStart.y = now.y - 1
    /\ <<periodStart, periodEnd>> # resolvePreset(selectedFormat, now)

\* C15: whatever the range before, inverted or ending in the middle of a
\* month, a start/end month selection leaves periodStart <= periodEnd; and
\* when the selected month does not cross the other boundary, that
\* boundary and its year cursor are left as they were.
MonthSelectRestoresOrder ==
    [][ lastOp'.op = "handleMonthYearSelect"
        => LET first == [y |-> lastOp'.year, m |-> lastOp'.month,
                         d |-> 1, t |-> 0]
               last  == [y |-> lastOp'.year, m |-> lastOp'.month,
                         d |-> DaysInMonth(lastOp'.year, lastOp'.month),
                         t |-> 2]
           IN  /\ Stamp(periodStart') <= Stamp(periodEnd')
               /\ ( lastOp'.isStart /\ Stamp(first) <= Stamp(periodEnd) )
                  => UNCHANGED <<periodEnd, endYear>>
               /\ ( ~lastOp'.isStart /\ Stamp(periodStart) <= Stamp(last) )
                  => UNCHANGED <<periodStart, startYear>> ]_vars

\* A start month was selected over an end in the middle of a month: the
\* end is still there and the range is ordered.
MidMonthEndKeptByStartSelect ==
    /\ lastOp.op = "handleMonthYearSelect"
    /\ lastOp.isStart
    /\ ~lastOp.adjusted
    /\ periodStart = [y |-> lastOp.year, m |-> lastOp.month, d |-> 1, t |-> 0]
    /\ periodEnd.t = 1
    /\ periodEnd.d < DaysInMonth(periodEnd.y, periodEnd.m)
    /\ Stamp(periodStart) <= Stamp(periodEnd)

\* C16: selecting a preset changes selectedFormat, periodStart and
\* periodEnd only; periodDuration, compareOptions, the year cursors and the
\* open flag are left as they were and no callback is invoked, so the
\* range of the preset is validated against the duration class chosen
\* before.
PresetChangesRangeAndLabelOnly ==
    [][ lastOp'.op = "handleFormatSelect"
        => /\ UNCHANGED <<periodDuration, compareOptions, startYear,
                          endYear, isOpen, activeTab>>
           /\ calls' = << >>
           /\ dateRangeValidation'
                 = validate(periodStart', periodEnd', periodDuration) ]_vars

\* '1 year' was chosen and then the preset 'This month': the preset is
\* selected and Apply is not actionable.
ThisMonthUnderOneYear ==
    /\ lastOp.op = "handleFormatSelect"
    /\ lastOp.format = "This month"
    /\ selectedFormat = "This month"
    /\ periodDuration = "1 year"
    /\ ~dateRangeValidation.isValid

====
